---- MODULE Spec2Model ----
(***************************************************************************)
(* Model of the MicroPython sampling scripts:                              *)
(*   src/tachometer.py                      edge-counting tachometer       *)
(*   src/temp_sensor.py                     timer-driven temperature log   *)
(*   src/weather_station/weather_station.py timer-driven MQTT publisher    *)
(*   src/weather_station/sht31d.py          SHT31-D driver                 *)
(*                                                                         *)
(* Three specifications share the module: SpecTach (the tachometer         *)
(* session), SpecSampler (the two deferred samplers; prog says which       *)
(* script is running) and SpecConv (the unit converters, as pure           *)
(* functions over exact rationals).  FairSampler is SpecSampler with the   *)
(* fairness of a free-running hardware timer and a task loop that drains   *)
(* the scheduler queue.                                                    *)
(***************************************************************************)
EXTENDS Integers, Sequences, FiniteSets, TLC

VARIABLES
    \* ---- tachometer.py ----
    tpc,            \* position of Tachometer.main
    irq_count,      \* self.irq_count
    num_seconds,    \* self.num_seconds
    sample_period,  \* self.sample_period (interval)
    blades,         \* self.blades
    max_duration,   \* self.max_duration
    irqEnabled,     \* FALSE between pyb.disable_irq() and pyb.enable_irq()
    extiPending,    \* the EXTI line's pending bit (one bit per line)
    rpm,            \* the rpm of the last reporting cycle, <<num, den>>
    lastCount,      \* the irq_count that rpm was computed from
    edges,          \* history: falling edges that occurred
    reported,       \* history: sum of the counts used for reported rpm values
    cycles,         \* history: completed reporting cycles
    tConsole,       \* what the tachometer has printed (see Blank)
    \* ---- temp_sensor.py / weather_station.py (deferred sampler) ----
    prog,           \* which script runs: "temp_sensor" or "weather_station"
    timer,          \* "unset", "active" (periodic callback armed), "deinit"
    schedQueue,     \* entries of micropython.schedule's queue for the routine
    running,        \* invocations of the task-context routine in progress
    seconds,        \* SensorTemp.seconds
    isrError,       \* a RuntimeError was raised inside the timer callback
    ev,             \* history: kind of the last step
    runLog,         \* operations completed by the latest run that has ended
    runErr,         \* the operation that raised in that run, or "none"
    mqttOpen,       \* the MQTT client holds an open connection
    console,        \* what the sampler has printed (see Blank)
    serial,         \* what SensorTemp has written to the UART (see Blank)
    \* ---- unit converters ----
    cAdc,           \* what adc.read() returns
    cBus,           \* the 6 bytes the SHT31-D returns on a bus read
    cFn,            \* converter last called ("none" before any call)
    cVal,           \* its val argument: <<>> for None, <<x>> for a sample x
    cFahr,          \* its fahrenheit argument
    cReads,         \* sensor/bus reads performed by the call
    cOut,           \* returned temperature, a reduced rational <<num, den>>
    cHum            \* returned humidity (get_data only), else <<0, 1>>

tachVars == <<tpc, irq_count, num_seconds, sample_period, blades, max_duration,
              irqEnabled, extiPending, rpm, lastCount, edges, reported, cycles,
              tConsole>>
samplerVars == <<prog, timer, schedQueue, running, seconds, isrError, ev,
                 runLog, runErr, mqttOpen, console, serial>>
convVars == <<cAdc, cBus, cFn, cVal, cFahr, cReads, cOut, cHum>>
vars == <<tachVars, samplerVars, convVars>>

----------------------------------------------------------------------------
(* Exact rationals <<num, den>>, den > 0, for Python's true division.      *)

Abs(x) == IF x < 0 THEN -x ELSE x

RECURSIVE GCD(_, _)
GCD(a, b) == IF b = 0 THEN a ELSE GCD(b, a % b)

Reduce(q) ==
    LET g == GCD(Abs(q[1]), q[2])
    IN  IF g = 0 THEN q ELSE <<q[1] \div g, q[2] \div g>>

----------------------------------------------------------------------------
(* A text destination (console, serial port), abstracted to what the       *)
(* properties need: hdr, the header lines written (0, 1, or 2 for more),   *)
(* data, whether a data line was written, and early, whether a data line   *)
(* was written before any header.                                          *)

Blank == [hdr |-> 0, data |-> FALSE, early |-> FALSE]

\* print(header) / serial.write(header)
WriteHeader(d) == [d EXCEPT !.hdr = IF @ < 2 THEN @ + 1 ELSE 2]

\* print(output_str) / serial.write(output_string)
WriteData(d) == [d EXCEPT !.data = TRUE, !.early = @ \/ d.hdr = 0]

----------------------------------------------------------------------------
(* Bounds and input sets.                                                  *)

MaxEdges == 4
Intervals == {0, 1, 2, 10}
Blades == {0, 1, 5}
Durations == {3, 4, 25}

----------------------------------------------------------------------------
(* tachometer.py                                                           *)

TachInit ==
    /\ tpc = "main"
    /\ irq_count = 0
    /\ num_seconds = 0
    /\ sample_period \in Intervals
    /\ blades \in Blades
    /\ max_duration \in Durations
    /\ irqEnabled = TRUE
    /\ extiPending = FALSE
    /\ rpm = <<0, 1>>
    /\ lastCount = 0
    /\ edges = 0
    /\ reported = 0
    /\ cycles = 0
    /\ tConsole = WriteHeader(Blank)

\* Tachometer.measure: the ExtInt callback.
measure(count) == count + 1

\* rpm = self.irq_count * 60 / (2 * self.blades)
RpmOf(count, b, t) == <<count * 60, 2 * b>>

\* while self.num_seconds < (self.max_duration // self.sample_period)
LoopCond == num_seconds < (max_duration \div sample_period)

\* main up to the loop: the ExtInt is attached with measure as callback.
TachAttach ==
    /\ tpc = "main"
    /\ tpc' = "test"
    /\ UNCHANGED <<irq_count, num_seconds, sample_period, blades, max_duration,
                   irqEnabled, extiPending, rpm, lastCount, edges, reported, cycles>>
    /\ UNCHANGED tConsole
    /\ UNCHANGED <<samplerVars, convVars>>

\* A falling edge on the pin.  With interrupts enabled measure runs; with
\* interrupts disabled the edge only sets the line's pending bit.
TachEdge ==
    /\ tpc \notin {"main", "done", "error"}
    /\ edges < MaxEdges
    /\ edges' = edges + 1
    /\ IF irqEnabled
         THEN /\ irq_count' = measure(irq_count)
              /\ UNCHANGED extiPending
         ELSE /\ extiPending' = TRUE
              /\ UNCHANGED irq_count
    /\ UNCHANGED <<tpc, num_seconds, sample_period, blades, max_duration,
                   irqEnabled, rpm, lastCount, reported, cycles>>
    /\ UNCHANGED tConsole
    /\ UNCHANGED <<samplerVars, convVars>>

\* The loop test; on exit main returns.  With an interval of 0 the floor
\* division raises ZeroDivisionError and main stops.
TachTest ==
    /\ tpc = "test"
    /\ tpc' = IF sample_period = 0 THEN "error"
              ELSE IF LoopCond THEN "sleep" ELSE "done"
    /\ UNCHANGED <<irq_count, num_seconds, sample_period, blades, max_duration,
                   irqEnabled, extiPending, rpm, lastCount, edges, reported, cycles>>
    /\ UNCHANGED tConsole
    /\ UNCHANGED <<samplerVars, convVars>>

\* time.sleep(self.sample_period) returns and pyb.disable_irq() is called.
TachDisableIrq ==
    /\ tpc = "sleep"
    /\ tpc' = "report"
    /\ irqEnabled' = FALSE
    /\ UNCHANGED <<irq_count, num_seconds, sample_period, blades, max_duration,
                   extiPending, rpm, lastCount, edges, reported, cycles>>
    /\ UNCHANGED tConsole
    /\ UNCHANGED <<samplerVars, convVars>>

\* rpm is computed from irq_count, formatted and printed.  With a blade
\* count of 0 the division raises ZeroDivisionError and main stops there.
TachReport ==
    /\ tpc = "report"
    /\ IF blades = 0
         THEN /\ tpc' = "error"
              /\ UNCHANGED <<rpm, lastCount, reported, tConsole>>
         ELSE /\ tpc' = "reset"
              /\ rpm' = RpmOf(irq_count, blades, sample_period)
              /\ lastCount' = irq_count
              /\ reported' = reported + irq_count
              /\ tConsole' = WriteData(tConsole)
    /\ UNCHANGED <<irq_count, num_seconds, sample_period, blades, max_duration,
                   irqEnabled, extiPending, edges, cycles>>
    /\ UNCHANGED <<samplerVars, convVars>>

\* self.irq_count = 0; self.num_seconds += self.sample_period
TachReset ==
    /\ tpc = "reset"
    /\ tpc' = "enable"
    /\ irq_count' = 0
    /\ num_seconds' = num_seconds + sample_period
    /\ cycles' = cycles + 1
    /\ UNCHANGED <<sample_period, blades, max_duration, irqEnabled, extiPending,
                   rpm, lastCount, edges, reported>>
    /\ UNCHANGED tConsole
    /\ UNCHANGED <<samplerVars, convVars>>

\* pyb.enable_irq(): a pending line interrupt is taken at once.
TachEnableIrq ==
    /\ tpc = "enable"
    /\ tpc' = "test"
    /\ irqEnabled' = TRUE
    /\ extiPending' = FALSE
    /\ irq_count' = IF extiPending THEN measure(irq_count) ELSE irq_count
    /\ UNCHANGED <<num_seconds, sample_period, blades, max_duration,
                   rpm, lastCount, edges, reported, cycles>>
    /\ UNCHANGED tConsole
    /\ UNCHANGED <<samplerVars, convVars>>

TachNext ==
    \/ TachAttach
    \/ TachEdge
    \/ TachTest
    \/ TachDisableIrq
    \/ TachReport
    \/ TachReset
    \/ TachEnableIrq

----------------------------------------------------------------------------
(* The deferred sampler: temp_sensor.py (SensorTemp) and                   *)
(* weather_station.py.  micropython.schedule(f, arg) appends one entry to  *)
(* the VM's scheduler queue and raises RuntimeError when the queue is      *)
(* full; the VM runs queued callbacks in task context one at a time, a     *)
(* scheduled callback never preempting another.  All entries here are the  *)
(* same callback with argument 0, so the queue is modelled by its length.  *)

SchedDepth == 4
Ceiling == 1000
Step == 10

SamplerInit ==
    /\ prog \in {"temp_sensor", "weather_station"}
    /\ timer = "unset"
    /\ schedQueue = 0
    /\ running = 0
    /\ seconds = 0
    /\ isrError = FALSE
    /\ ev = "none"
    /\ runLog = <<>>
    /\ runErr = "none"
    /\ mqttOpen = FALSE
    /\ console = Blank
    /\ serial = Blank

\* A scheduler that merges a request into the one already queued.
SchedPushCoalescing(q) == IF q = 0 THEN 1 ELSE q

\* micropython.schedule on a queue of length q: the new length.
SchedPush(q) == IF q < SchedDepth THEN q + 1 ELSE q

\* micropython.schedule on a queue of length q raises RuntimeError.
SchedFull(q) == q >= SchedDepth

\* The elapsed counter set instead of advanced.
NextSecondsAssigned(s) == Step

\* self.seconds += 10
NextSeconds(s) == s + Step

\* if self.seconds > 1000
Finished(s) == s > Ceiling

\* The operations of SensorTemp.get_temperature, in program order.
TsOps == <<"tmp36_read", "sht31d_read", "print", "serial_write">>

\* Those of them that can raise: the I2C transfer with the SHT31-D.
TsFailing == {"sht31d_read"}

\* publish_data with the console lines after the publish.
WsOpsPrintLast ==
    <<"get_data", "oled", "connect", "publish", "disconnect", "print", "print">>

\* The operations of weather_station.publish_data, in program order: sensor
\* read, two console lines, display redraw, MQTT connect, publish, disconnect.
WsOps ==
    <<"get_data", "print", "print", "oled", "connect", "publish", "disconnect">>

\* Those of them that can raise: the I2C transfers and the network calls.
WsFailing == {"get_data", "oled", "connect", "publish", "disconnect"}

\* The operations completed by a run that raises in its k-th operation.
Prefix(ops, k) == SubSeq(ops, 1, k - 1)

Has(log, op) == \E i \in 1..Len(log) : log[i] = op

Count(log, op) == Cardinality({i \in 1..Len(log) : log[i] = op})

\* The destinations after a run that completed the operations of log.
ConsoleAfter(d, log) == IF Has(log, "print") THEN WriteData(d) ELSE d
SerialAfter(d, log) == IF Has(log, "serial_write") THEN WriteData(d) ELSE d
MqttAfter(open, log) ==
    IF Has(log, "disconnect") THEN FALSE
    ELSE IF Has(log, "connect") THEN TRUE ELSE open

\* collect with the timer armed and no header written.
collectNoHeader ==
    /\ prog = "temp_sensor"
    /\ timer = "unset"
    /\ timer' = "active"
    /\ ev' = "start"
    /\ UNCHANGED <<prog, schedQueue, running, seconds, isrError,
                   runLog, runErr, mqttOpen, console, serial>>
    /\ UNCHANGED <<tachVars, convVars>>

\* SensorTemp.collect: the header is written to the serial port and printed,
\* then Timer(2)'s callback is set.
collect ==
    /\ prog = "temp_sensor"
    /\ timer = "unset"
    /\ serial' = WriteHeader(serial)
    /\ console' = WriteHeader(console)
    /\ timer' = "active"
    /\ ev' = "start"
    /\ UNCHANGED <<prog, schedQueue, running, seconds, isrError,
                   runLog, runErr, mqttOpen>>
    /\ UNCHANGED <<tachVars, convVars>>

\* weather_station.main: Wi-Fi is joined and the periodic Timer is started.
main ==
    /\ prog = "weather_station"
    /\ timer = "unset"
    /\ timer' = "active"
    /\ ev' = "start"
    /\ UNCHANGED <<prog, schedQueue, running, seconds, isrError,
                   runLog, runErr, mqttOpen, console, serial>>
    /\ UNCHANGED <<tachVars, convVars>>

\* A timer callback that calls the routine itself instead of scheduling it.
TsScheduleDirect ==
    /\ prog = "temp_sensor"
    /\ timer = "active"
    /\ running' = running + 1
    /\ ev' = "run"
    /\ UNCHANGED <<prog, timer, schedQueue, seconds, isrError,
                   runLog, runErr, mqttOpen, console, serial>>
    /\ UNCHANGED <<tachVars, convVars>>

\* SensorTemp.schedule, the timer callback (interrupt context).
TsSchedule ==
    /\ prog = "temp_sensor"
    /\ timer = "active"
    /\ schedQueue' = SchedPush(schedQueue)
    /\ isrError' = (isrError \/ SchedFull(schedQueue))
    /\ ev' = "fire"
    /\ UNCHANGED <<prog, timer, running, seconds,
                   runLog, runErr, mqttOpen, console, serial>>
    /\ UNCHANGED <<tachVars, convVars>>

\* The VM takes a queued get_temperature entry and enters the routine.
TsRun ==
    /\ prog = "temp_sensor"
    /\ schedQueue > 0
    /\ running = 0
    /\ schedQueue' = schedQueue - 1
    /\ running' = running + 1
    /\ ev' = "run"
    /\ UNCHANGED <<prog, timer, seconds, isrError,
                   runLog, runErr, mqttOpen, console, serial>>
    /\ UNCHANGED <<tachVars, convVars>>

\* SensorTemp.get_temperature: sensors read, line printed and written to the
\* serial port, seconds advanced, timer deinitialised past the ceiling.
get_temperature ==
    /\ prog = "temp_sensor"
    /\ running > 0
    /\ runLog' = TsOps
    /\ runErr' = "none"
    /\ console' = ConsoleAfter(console, TsOps)
    /\ serial' = SerialAfter(serial, TsOps)
    /\ seconds' = NextSeconds(seconds)
    /\ timer' = IF Finished(seconds') THEN "deinit" ELSE timer
    /\ running' = running - 1
    /\ ev' = "ret"
    /\ UNCHANGED <<prog, schedQueue, isrError, mqttOpen>>
    /\ UNCHANGED <<tachVars, convVars>>

\* A failed run that also stops the timer.
get_temperature_raises_stops ==
    /\ prog = "temp_sensor"
    /\ running > 0
    /\ \E k \in 1..Len(TsOps) :
        /\ TsOps[k] \in TsFailing
        /\ runLog' = Prefix(TsOps, k)
        /\ runErr' = TsOps[k]
    /\ timer' = "deinit"
    /\ running' = running - 1
    /\ ev' = "ret"
    /\ UNCHANGED <<prog, schedQueue, seconds, isrError, mqttOpen, console, serial>>
    /\ UNCHANGED <<tachVars, convVars>>

\* SensorTemp.get_temperature ended by an exception: the operations before
\* the one that raised are done, the rest of the routine (the data line, the
\* counter, the ceiling test) is skipped.  The VM reports the exception of a
\* scheduled callback and goes on.
get_temperature_raises ==
    /\ prog = "temp_sensor"
    /\ running > 0
    /\ \E k \in 1..Len(TsOps) :
        /\ TsOps[k] \in TsFailing
        /\ runLog' = Prefix(TsOps, k)
        /\ runErr' = TsOps[k]
        /\ console' = ConsoleAfter(console, Prefix(TsOps, k))
        /\ serial' = SerialAfter(serial, Prefix(TsOps, k))
    /\ running' = running - 1
    /\ ev' = "ret"
    /\ UNCHANGED <<prog, timer, schedQueue, seconds, isrError, mqttOpen>>
    /\ UNCHANGED <<tachVars, convVars>>

\* weather_station.schedule, the timer callback.
WsSchedule ==
    /\ prog = "weather_station"
    /\ timer = "active"
    /\ schedQueue' = SchedPush(schedQueue)
    /\ isrError' = (isrError \/ SchedFull(schedQueue))
    /\ ev' = "fire"
    /\ UNCHANGED <<prog, timer, running, seconds,
                   runLog, runErr, mqttOpen, console, serial>>
    /\ UNCHANGED <<tachVars, convVars>>

\* The VM takes a queued publish_data entry and enters the routine.
WsRun ==
    /\ prog = "weather_station"
    /\ schedQueue > 0
    /\ running = 0
    /\ schedQueue' = schedQueue - 1
    /\ running' = running + 1
    /\ ev' = "run"
    /\ UNCHANGED <<prog, timer, seconds, isrError,
                   runLog, runErr, mqttOpen, console, serial>>
    /\ UNCHANGED <<tachVars, convVars>>

\* weather_station.publish_data: sensor read, console and display written,
\* payload published.  It keeps no elapsed counter and never stops the timer.
publish_data ==
    /\ prog = "weather_station"
    /\ running > 0
    /\ runLog' = WsOps
    /\ runErr' = "none"
    /\ console' = ConsoleAfter(console, WsOps)
    /\ mqttOpen' = MqttAfter(mqttOpen, WsOps)
    /\ running' = running - 1
    /\ ev' = "ret"
    /\ UNCHANGED <<prog, timer, schedQueue, seconds, isrError, serial>>
    /\ UNCHANGED <<tachVars, convVars>>

\* weather_station.publish_data ended by an exception: nothing in it catches
\* one, so the operations after the one that raised are skipped.
publish_data_raises ==
    /\ prog = "weather_station"
    /\ running > 0
    /\ \E k \in 1..Len(WsOps) :
        /\ WsOps[k] \in WsFailing
        /\ runLog' = Prefix(WsOps, k)
        /\ runErr' = WsOps[k]
        /\ console' = ConsoleAfter(console, Prefix(WsOps, k))
        /\ mqttOpen' = MqttAfter(mqttOpen, Prefix(WsOps, k))
    /\ running' = running - 1
    /\ ev' = "ret"
    /\ UNCHANGED <<prog, timer, schedQueue, seconds, isrError, serial>>
    /\ UNCHANGED <<tachVars, convVars>>

SamplerNext ==
    \/ collect
    \/ main
    \/ TsSchedule
    \/ TsRun
    \/ get_temperature
    \/ get_temperature_raises
    \/ WsSchedule
    \/ WsRun
    \/ publish_data
    \/ publish_data_raises

----------------------------------------------------------------------------
(* Unit converters: TMP36.get_temperature and SHT31D.get_temperature of    *)
(* temp_sensor.py, SHT31D.get_data of weather_station/sht31d.py.  Python's *)
(* true division is modelled by exact rational arithmetic.                 *)

RInt(n) == <<n, 1>>
RAdd(a, b) == Reduce(<<a[1] * b[2] + b[1] * a[2], a[2] * b[2]>>)
RSub(a, b) == Reduce(<<a[1] * b[2] - b[1] * a[2], a[2] * b[2]>>)
RMul(a, b) == Reduce(<<a[1] * b[1], a[2] * b[2]>>)
RDiv(a, b) == Reduce(<<a[1] * b[2], a[2] * b[1]>>)    \* b > 0

\* |a - b| <= 1/10
Within01(a, b) ==
    LET d == RSub(a, b) IN Abs(d[1]) * 10 <= d[2]

ByteVals == {0, 102, 255}
CrcVals == {0, 171}
AdcReadings == {0, 700, 4095}
AdcSamples == {0, 1, 620, 4095}

\* The 6-byte replies of the SHT31-D: temperature MSB, LSB, CRC, humidity
\* MSB, LSB, CRC.
Replies ==
    {<<t1, t2, c, h1, h2, c>> : t1 \in ByteVals, t2 \in ByteVals,
                                h1 \in ByteVals, h2 \in ByteVals, c \in CrcVals}

\* Python's "not raw_val" for an int-or-None argument: None and 0 are falsy.
NotInt(val) == Len(val) = 0 \/ val[1] = 0

\* Python's "not raw_val" for a bytes-or-None argument: None and b'' are falsy.
NotBytes(val) == Len(val) = 0 \/ Len(val[1]) = 0

\* (raw_val[i] << 8) + raw_val[i + 1], indices as in Python (from 0)
Word(raw, i) == raw[i + 1] * 256 + raw[i + 2]

\* The Celsius formula with the offset of the Fahrenheit one.
SHTCelsiusWrongOffset(raw_temp) ==
    RSub(RDiv(RMul(RInt(175), RInt(raw_temp)), RInt(65535)), RInt(49))

\* celsius = (175 * raw_temp/65535) - 45
SHTCelsius(raw_temp) ==
    RSub(RDiv(RMul(RInt(175), RInt(raw_temp)), RInt(65535)), RInt(45))

\* The direct Fahrenheit formula with the offset of the Celsius one.
SHTFahrenheitWrongOffset(raw_temp) ==
    RSub(RDiv(RMul(RInt(315), RInt(raw_temp)), RInt(65535)), RInt(45))

\* (315 * raw_temp/65535) - 49
SHTFahrenheit(raw_temp) ==
    RSub(RDiv(RMul(RInt(315), RInt(raw_temp)), RInt(65535)), RInt(49))

\* humidity = 100 * (raw_humidity/65535)
SHTHumidity(raw_humidity) ==
    RMul(RInt(100), RDiv(RInt(raw_humidity), RInt(65535)))

\* mv = raw_val * 3300/4095; celsius = (mv - 500)/10.0
TMP36Celsius(raw) ==
    LET mv == RDiv(RMul(RInt(raw), RInt(3300)), RInt(4095))
    IN  RDiv(RSub(mv, RInt(500)), RInt(10))

\* (celsius * ratio) + 32, ratio = 9.0/5.0
ToFahrenheit(celsius) ==
    RAdd(RMul(celsius, RDiv(RInt(9), RInt(5))), RInt(32))

\* TMP36.get_temperature(val, fahrenheit) with the ADC reading adc.
TMP36_get_temperature(val, fahrenheit, adc) ==
    LET fresh == NotInt(val)
        raw_val == IF fresh THEN adc ELSE val[1]
        celsius == TMP36Celsius(raw_val)
    IN  [out |-> IF fahrenheit THEN ToFahrenheit(celsius) ELSE celsius,
         reads |-> IF fresh THEN 1 ELSE 0]

\* temp_sensor.SHT31D.get_temperature(val, fahrenheit) with the sensor
\* replying bus.
SHT31D_get_temperature(val, fahrenheit, bus) ==
    LET fresh == NotBytes(val)
        raw_val == IF fresh THEN bus ELSE val[1]
        raw_temp == Word(raw_val, 0)
    IN  [out |-> IF fahrenheit THEN SHTFahrenheit(raw_temp)
                               ELSE SHTCelsius(raw_temp),
         reads |-> IF fresh THEN 1 ELSE 0]

\* sht31d.SHT31D.get_data(fahrenheit): it takes no sample, it always reads.
get_data(fahrenheit, bus) ==
    LET raw_val == bus
        raw_temp == Word(raw_val, 0)
        raw_humidity == Word(raw_val, 3)
    IN  [out |-> IF fahrenheit THEN SHTFahrenheit(raw_temp)
                               ELSE SHTCelsius(raw_temp),
         hum |-> SHTHumidity(raw_humidity),
         reads |-> 1]

\* The captured samples handed to SHT31D.get_temperature.
Samples == {r \in Replies : r[3] = 0 /\ r[4] = r[1] /\ r[5] = r[2]}

ConvInit ==
    /\ cAdc \in AdcReadings
    /\ cBus \in Replies
    /\ cFn = "none"
    /\ cVal = <<>>
    /\ cFahr = FALSE
    /\ cReads = 0
    /\ cOut = <<0, 1>>
    /\ cHum = <<0, 1>>

CallTMP36 ==
    /\ cFn = "none"
    /\ \E val \in {<<>>} \cup {<<r>> : r \in AdcSamples}, f \in BOOLEAN :
        LET res == TMP36_get_temperature(val, f, cAdc)
        IN  /\ cFn' = "TMP36.get_temperature"
            /\ cVal' = val
            /\ cFahr' = f
            /\ cReads' = res.reads
            /\ cOut' = res.out
            /\ cHum' = <<0, 1>>
            /\ UNCHANGED <<cAdc, cBus, tachVars, samplerVars>>

\* A call of temp_sensor's SHT31D.get_temperature with val drawn from vals.
CallSHT31DOn(vals) ==
    /\ cFn = "none"
    /\ \E val \in vals, f \in BOOLEAN :
        LET res == SHT31D_get_temperature(val, f, cBus)
        IN  /\ cFn' = "SHT31D.get_temperature"
            /\ cVal' = val
            /\ cFahr' = f
            /\ cReads' = res.reads
            /\ cOut' = res.out
            /\ cHum' = <<0, 1>>
            /\ UNCHANGED <<cAdc, cBus, tachVars, samplerVars>>

CallSHT31D == CallSHT31DOn({<<>>} \cup {<<r>> : r \in Samples})

CallGetData ==
    /\ cFn = "none"
    /\ \E f \in BOOLEAN :
        LET res == get_data(f, cBus)
        IN  /\ cFn' = "SHT31D.get_data"
            /\ cVal' = <<>>
            /\ cFahr' = f
            /\ cReads' = res.reads
            /\ cOut' = res.out
            /\ cHum' = res.hum
            /\ UNCHANGED <<cAdc, cBus, tachVars, samplerVars>>

ConvNext ==
    \/ CallTMP36
    \/ CallSHT31D
    \/ CallGetData

----------------------------------------------------------------------------
(* Specifications.  Each runs one program; the variables of the others     *)
(* keep fixed values.                                                      *)

TachIdle ==
    /\ tpc = "idle"
    /\ irq_count = 0
    /\ num_seconds = 0
    /\ sample_period = 2
    /\ blades = 5
    /\ max_duration = 300
    /\ irqEnabled = TRUE
    /\ extiPending = FALSE
    /\ rpm = <<0, 1>>
    /\ lastCount = 0
    /\ edges = 0
    /\ reported = 0
    /\ cycles = 0
    /\ tConsole = Blank

SamplerIdle ==
    /\ prog = "none"
    /\ timer = "unset"
    /\ schedQueue = 0
    /\ running = 0
    /\ seconds = 0
    /\ isrError = FALSE
    /\ ev = "none"
    /\ runLog = <<>>
    /\ runErr = "none"
    /\ mqttOpen = FALSE
    /\ console = Blank
    /\ serial = Blank

ConvIdle ==
    /\ cAdc = 0
    /\ cBus = <<0, 0, 0, 0, 0, 0>>
    /\ cFn = "none"
    /\ cVal = <<>>
    /\ cFahr = FALSE
    /\ cReads = 0
    /\ cOut = <<0, 1>>
    /\ cHum = <<0, 1>>

InitTach == TachInit /\ SamplerIdle /\ ConvIdle

InitSampler == TachIdle /\ SamplerInit /\ ConvIdle

InitConv == TachIdle /\ SamplerIdle /\ ConvInit

SpecTach ==
    /\ InitTach
    /\ [][TachNext]_vars

SpecSampler ==
    /\ InitSampler
    /\ [][SamplerNext]_vars

\* The hardware timer keeps firing while it is armed, the VM runs a queued
\* callback whenever the task context is free, and the routine returns.  I/O
\* errors are transient: runs of get_temperature that can complete again and
\* again do complete (strong fairness); no run is required to fail.
FairSampler ==
    /\ SpecSampler
    /\ WF_vars(collect)
    /\ WF_vars(main)
    /\ WF_vars(TsSchedule)
    /\ WF_vars(TsRun)
    /\ SF_vars(get_temperature)
    /\ WF_vars(WsSchedule)
    /\ WF_vars(WsRun)
    /\ WF_vars(publish_data)

SpecConv ==
    /\ InitConv
    /\ [][ConvNext]_vars

\* Every 16-bit raw temperature: the SHT31-D converters on a fresh read of
\* any reply whose temperature bytes are t1, t2.
AllTemps == {<<t1, t2, 0, 0, 0, 0>> : t1 \in 0..255, t2 \in 0..255}

InitFahr ==
    /\ TachIdle /\ SamplerIdle
    /\ cAdc = 0
    /\ cBus \in AllTemps
    /\ cFn = "none"
    /\ cVal = <<>>
    /\ cFahr = FALSE
    /\ cReads = 0
    /\ cOut = <<0, 1>>
    /\ cHum = <<0, 1>>

SpecFahr ==
    /\ InitFahr
    /\ [][CallGetData \/ CallSHT31DOn({<<>>})]_vars

\* Either the tachometer or a deferred sampler, from the start of its script.
InitHeader == InitTach \/ InitSampler

SpecHeader ==
    /\ InitHeader
    /\ [][TachNext \/ SamplerNext]_vars

----------------------------------------------------------------------------
(* Properties of the tachometer session (SpecTach).                        *)

\* Edges accounted for: reported, still in the counter, or pending.
Accounted ==
    reported + (IF tpc = "reset" THEN 0 ELSE irq_count)
             + (IF extiPending THEN 1 ELSE 0)

\* C1: no edge is lost and none is counted twice, also for edges arriving
\* between disable_irq and enable_irq: every edge that occurred is in a
\* reported count, in the counter, or pending for the next interval.
C1_NoEdgeLost == (blades > 0 /\ sample_period > 0) => edges = Accounted

\* C2: a session performs exactly floor(max_duration / interval) reporting
\* cycles and ends with num_seconds = floor(max_duration / interval) * interval.
C2_FloorCycles ==
    (tpc = "done" /\ sample_period > 0) =>
        /\ cycles = max_duration \div sample_period
        /\ num_seconds = (max_duration \div sample_period) * sample_period

\* C3: the rpm of a reporting cycle is c*60/(2*b*t) for the edge count c,
\* blade count b and interval t, and 0 when c = 0.
C3_RpmFormula ==
    (blades > 0 /\ sample_period > 0 /\ (tpc \in {"reset", "enable"} \/ cycles > 0)) =>
        /\ Reduce(rpm) = Reduce(<<lastCount * 60, 2 * blades * sample_period>>)
        /\ (lastCount = 0 => rpm[1] = 0)

\* C16: while interrupts are disabled the task only reads and resets the edge
\* counter: when the rpm has just been formatted and printed, interrupts are
\* enabled.
C16_ShortCritical == (tpc = "reset") => irqEnabled

\* C17: a blade count or interval that is not positive is rejected before the
\* edge interrupt is attached and the loop starts, so that main never stops
\* with a ZeroDivisionError.
C17_ConfigValidated ==
    /\ (tpc # "main") => (blades > 0 /\ sample_period > 0)
    /\ tpc # "error"

\* C19: interrupts are never left disabled: they are enabled during every
\* sleep and whenever main has stopped, normally or by an error.
C19_IrqReenabled ==
    (tpc \in {"sleep", "done", "error"}) => irqEnabled

----------------------------------------------------------------------------
(* Properties of the deferred samplers (SpecSampler, FairSampler).         *)

C5_NoSelfConcurrency == running <= 1

\* The timer fired while the routine was running, and the request waits.
C5_Witness ==
    /\ running = 1
    /\ schedQueue >= 1
    /\ ev = "fire"

\* C6: once the routine has deinitialised the timer, no run of the routine
\* begins, also not one requested by an earlier firing.
C6_NoRunAfterDeinit == ~(timer = "deinit" /\ ev = "run")

\* C7 as claimed: every deferred-sampler session, temperature pipeline or
\* weather station, eventually deactivates its timer.
C7_AllTerminate == <>(timer = "deinit")

\* C7 as amended: the temperature pipeline eventually passes its ceiling and
\* deactivates its timer; the weather station never deactivates its timer.
C7_TempTerminates ==
    /\ (prog = "temp_sensor") => <>(timer = "deinit" /\ Finished(seconds))
    /\ (prog = "weather_station") => [](timer # "deinit")

\* The temperature pipeline after its self-termination.
C7_Witness ==
    /\ prog = "temp_sensor"
    /\ timer = "deinit"
    /\ Finished(seconds)
    /\ running = 0

\* The destination an operation of the routine writes to, "" for none.
DestOf(op) ==
    CASE op = "print" -> "console"
      [] op = "serial_write" -> "serial"
      [] op = "oled" -> "display"
      [] op \in {"connect", "publish", "disconnect"} -> "remote"
      [] OTHER -> ""

\* Destination d received the record of a run that completed log.
Received(d, log) ==
    CASE d = "console" -> Has(log, "print")
      [] d = "serial" -> Has(log, "serial_write")
      [] d = "display" -> Has(log, "oled")
      [] d = "remote" -> Has(log, "publish")

\* The destinations configured in the running script.
Dests ==
    IF prog = "weather_station" THEN {"console", "display", "remote"}
                                ELSE {"console", "serial"}

\* C12: when the remote publish (connect, publish or disconnect) fails in a
\* run of publish_data, the console has received the temperature and the
\* humidity line of that run.
C12_ConsoleBeforePublish ==
    (prog = "weather_station" /\ runErr \in {"connect", "publish", "disconnect"}) =>
        Count(runLog, "print") = 2 /\ console.data

\* A run of publish_data that failed in publish.
C12_Witness ==
    /\ prog = "weather_station"
    /\ runErr = "publish"
    /\ ev = "ret"
    /\ Has(runLog, "connect")

\* C13: a failure of one destination's write does not prevent any other
\* configured destination from receiving the record of that run.
C13_Independent ==
    (runErr # "none" /\ DestOf(runErr) # "") =>
        \A d \in Dests \ {DestOf(runErr)} : Received(d, runLog)

\* C14: an I/O error raised inside a run does not end the session: the failed
\* run leaves the timer and the queued requests as they were, and a timer
\* firing is always followed by a run of the routine.
C14_SessionSurvives ==
    /\ [][(ev' = "ret" /\ runErr' # "none") =>
            (timer' = timer /\ schedQueue' = schedQueue /\ running' = 0)]_vars
    /\ [](ev = "fire" => <>(ev = "run"))

\* The routine was entered again after a run that raised, the timer armed.
C14_Witness ==
    /\ runErr # "none"
    /\ ev = "run"
    /\ running = 1
    /\ timer = "active"

\* C15 (SensorTemp and Tachometer): on each text destination the header is
\* written exactly once, before any data line, and before the interrupt
\* source that drives the measurements is armed.
C15_HeaderOnceFirst ==
    /\ (tpc # "idle") =>
           /\ tConsole.hdr = 1
           /\ ~tConsole.early
    /\ (prog = "temp_sensor") =>
           /\ console.hdr <= 1 /\ serial.hdr <= 1
           /\ ~console.early /\ ~serial.early
           /\ (timer # "unset") => (console.hdr = 1 /\ serial.hdr = 1)

\* SensorTemp has written a data line to the console and the serial port.
C15_Witness ==
    /\ prog = "temp_sensor"
    /\ console.data /\ serial.data
    /\ console.hdr = 1 /\ serial.hdr = 1

\* C18: the timer callback never raises: its request for a deferred run
\* completes whatever the number of firings before the routine runs.
C18_HandlerNoError == ~isrError

\* The MQTT operations of a run, in the order they were made.
IsMqtt(op) == op \in {"connect", "publish", "disconnect"}

\* C20: a run of publish_data uses the remote channel as connect, one
\* publish, disconnect, and whenever no run is in progress the MQTT client is
\* disconnected.
C20_MqttClosed ==
    (prog = "weather_station") =>
        /\ (runErr = "none" /\ runLog # <<>>) =>
               SelectSeq(runLog, IsMqtt) = <<"connect", "publish", "disconnect">>
        /\ (running = 0) => ~mqttOpen

----------------------------------------------------------------------------
(* Properties of the unit converters (SpecConv).                           *)

\* The reply [0x66, 0x66, _, 0x66, 0x66, _].
Is6666(raw) == raw[1] = 102 /\ raw[2] = 102 /\ raw[4] = 102 /\ raw[5] = 102

\* The sample a call of SHT31D.get_temperature was given or, with none
\* given, read.
Given(val, bus) == IF Len(val) = 0 THEN bus ELSE val[1]

\* C11: for every raw_temp in 0..65535 the direct Fahrenheit result
\* 315*raw_temp/65535 - 49 equals, in exact arithmetic, the Celsius result
\* 175*raw_temp/65535 - 45 converted by celsius*9/5 + 32.
C11_DirectFahrenheit ==
    (cFn \in {"SHT31D.get_data", "SHT31D.get_temperature"} /\ cFahr) =>
        cOut = ToFahrenheit(SHTCelsius(Word(Given(cVal, cBus), 0)))

\* get_data has returned Fahrenheit for the largest raw temperature.
C11_Witness ==
    /\ cFn = "SHT31D.get_data"
    /\ cFahr
    /\ Word(cBus, 0) = 65535
    /\ cOut = <<266, 1>>

\* C8: TMP36.get_temperature on a supplied raw sample returns
\* (raw*3300/4095 - 500)/10 Celsius: -50 for raw 0, 280 for raw 4095.
C8_AnalogCelsius ==
    (cFn = "TMP36.get_temperature" /\ Len(cVal) = 1 /\ ~cFahr) =>
        /\ cOut = Reduce(<<cVal[1] * 3300 - 500 * 4095, 4095 * 10>>)
        /\ (cVal[1] = 0 => cOut = <<-50, 1>>)
        /\ (cVal[1] = 4095 => cOut = <<280, 1>>)

\* C9: a converter given a captured sample performs no sensor or bus read.
C9_SuppliedNoRead ==
    (cFn # "none" /\ Len(cVal) = 1) => cReads = 0

\* C10 as claimed: for the reply [0x66,0x66,_,0x66,0x66,_] the Celsius
\* temperature is within 0.1 of 45.0 and the humidity within 0.1 of 40.0.
C10_Celsius45 ==
    /\ (cFn = "SHT31D.get_data" /\ ~cFahr /\ Is6666(cBus)) =>
           Within01(cOut, RInt(45)) /\ Within01(cHum, RInt(40))
    /\ (cFn = "SHT31D.get_temperature" /\ ~cFahr /\ Is6666(Given(cVal, cBus))) =>
           Within01(cOut, RInt(45))

\* C10 as amended: for that reply the Celsius temperature is within 0.1 of
\* 25.0 and the humidity within 0.1 of 40.0.
C10_Celsius25 ==
    /\ (cFn = "SHT31D.get_data" /\ ~cFahr /\ Is6666(cBus)) =>
           Within01(cOut, RInt(25)) /\ Within01(cHum, RInt(40))
    /\ (cFn = "SHT31D.get_temperature" /\ ~cFahr /\ Is6666(Given(cVal, cBus))) =>
           Within01(cOut, RInt(25))

\* get_data has converted the reply [0x66,0x66,_,0x66,0x66,_] to Celsius.
C10_Witness ==
    /\ cFn = "SHT31D.get_data"
    /\ ~cFahr
    /\ Is6666(cBus)
    /\ cReads = 1

====
